---- MODULE Spec2Model ----
(***************************************************************************)
(* A model of the code examples of FastAPI_Tutorial.py: the HTTP handlers  *)
(* of the tutorial's example applications (root route, HTTP Basic, OAuth2  *)
(* password flow, JWT, role based authorization), the get_db dependency,   *)
(* the logging middleware and the console examples on exception handling.  *)
(*                                                                         *)
(* Each example application is its own specification over the shared       *)
(* variables: Spec (the stateless HTTP handlers), SpecDb (get_db),         *)
(* SpecMw (log_requests) and SpecExc (the try/except console examples).    *)
(***************************************************************************)
EXTENDS Integers, Sequences, FiniteSets, TLC

VARIABLES
    route,      \* the handler that served the last request ("" before any)
    request,    \* the inputs of the last request
    response,   \* the response the client received for it
    served,     \* number of requests served so far
    now,        \* datetime.utcnow(), in minutes
    held,       \* the JWT the client stored from its last login (None before)
    reqs,       \* get_db: per request, where it is and the session it holds
    sessions,   \* get_db: every session opened so far
    mw,         \* log_requests: per request, where the middleware is
    console,    \* log_requests: what print has written, in order
    prog,       \* console examples: the example that runs ("" before any)
    epc,        \* console examples: "idle", "prompt" (in the loop) or "done"
    line,       \* console examples: the last line input() returned
    stdout,     \* console examples: what was written, in order
    num,        \* console examples: the variable num (or x), None when unbound
    escaped,    \* console examples: the exception that left the program, or ""
    attempts    \* console examples: number of lines read by the retry loop

httpVars == <<route, request, response, served, now, held>>
dbVars == <<reqs, sessions>>
mwVars == <<mw, console>>
excVars == <<prog, epc, line, stdout, num, escaped, attempts>>

vars == <<httpVars, dbVars, mwVars, excVars>>

(***************************************************************************)
(* Bounds of the model.                                                    *)
(***************************************************************************)
MaxServed == 3
MaxRequests == 3
MaxMwRequests == 2
MaxLineLen == 3
MaxAttempts == 3
MaxNow == 40
TickMinutes == 10

(***************************************************************************)
(* Python values.                                                          *)
(***************************************************************************)
None == [type |-> "NoneType"]

\* dict.get(key): the value, or None for a missing key
Get(dict, key) == IF key \in DOMAIN dict THEN dict[key] ELSE None

\* Python truthiness of a dict or None, as used by "not user"
Truthy(v) == v # None /\ DOMAIN v # {}

NoHeaders == <<>>

\* raise HTTPException(status_code=..., detail=..., headers=...)
HTTPException(status_code, detail, headers) ==
    [type |-> "HTTPException", status_code |-> status_code,
     detail |-> detail, headers |-> headers]

\* an exception of the language or of a library, with its class and bases
PyError(cls) ==
    [type |-> cls, status_code |-> 0, detail |-> "", headers |-> NoHeaders]

Return(value) == [kind |-> "return", value |-> value]
Raise(exc) == [kind |-> "raise", exc |-> exc]

(***************************************************************************)
(* The framework's translation of a handler's outcome into a response: a   *)
(* returned value is a 200 JSON body, an HTTPException its status, detail  *)
(* and headers, any other exception a 500.                                 *)
(***************************************************************************)
ToResponse(outcome) ==
    IF outcome.kind = "return"
    THEN [status_code |-> 200, body |-> outcome.value, headers |-> NoHeaders]
    ELSE IF outcome.exc.type = "HTTPException"
    THEN [status_code |-> outcome.exc.status_code,
          body |-> [detail |-> outcome.exc.detail],
          headers |-> outcome.exc.headers]
    ELSE [status_code |-> 500, body |-> [detail |-> "Internal Server Error"],
          headers |-> NoHeaders]

NoResponse == [status_code |-> 0, body |-> [detail |-> ""], headers |-> NoHeaders]

\* the names callers try as usernames and passwords
Usernames == {"admin", "user1", "user", "guest"}
Passwords == {"secret", "password123", "admin", "user", ""}

\* one request served: what every handler below does to the bookkeeping
Serve(r, req, outcome) ==
    /\ served < MaxServed
    /\ route' = r
    /\ request' = req
    /\ response' = ToResponse(outcome)
    /\ served' = served + 1
    /\ UNCHANGED <<dbVars, mwVars, excVars>>

(***************************************************************************)
(* 3. Creating Your First API: the root route.                             *)
(***************************************************************************)
\* a root route whose body counts the requests served
read_root_alt == Return([message |-> "Hello, FastAPI! #" \o ToString(served)])

read_root == Return([message |-> "Hello, FastAPI!"])

GetRoot ==
    /\ Serve("read_root", [path |-> "/"], read_root)
    /\ UNCHANGED <<now, held>>

(***************************************************************************)
(* HTTP Basic: HTTPBasic() yields the credentials of the Authorization     *)
(* header, or answers 401 itself when the header is missing.               *)
(***************************************************************************)
BasicCredentials ==
    {None} \cup [username : Usernames, password : Passwords]

WWWAuthenticateBasic == [x \in {"WWW-Authenticate"} |-> "Basic"]

security(credentials) ==
    IF credentials = None
    THEN Raise(HTTPException(401, "Not authenticated", WWWAuthenticateBasic))
    ELSE Return(credentials)

\* section 10: the fixed pair admin/secret
read_protected_basic(credentials) ==
    IF credentials.username # "admin" \/ credentials.password # "secret"
    THEN Raise(HTTPException(401, "Incorrect credentials", WWWAuthenticateBasic))
    ELSE Return([message |-> "Welcome, admin!"])

GetProtectedBasic ==
    \E credentials \in BasicCredentials :
        LET dep == security(credentials) IN
        /\ Serve("read_protected_basic", [credentials |-> credentials],
                 IF dep.kind = "raise" THEN dep
                 ELSE read_protected_basic(dep.value))
        /\ UNCHANGED <<now, held>>

\* advanced topics 1.1: the mock user table and the dependency
fake_users_db_basic ==
    [u \in {"admin"} |-> [username |-> "admin", password |-> "secret"]]

\* a dependency that looks the user up and skips the password
authenticate_user_alt(credentials) ==
    LET user == Get(fake_users_db_basic, credentials.username) IN
    IF ~Truthy(user)
    THEN Raise(HTTPException(401, "Invalid credentials", WWWAuthenticateBasic))
    ELSE Return(credentials.username)

authenticate_user(credentials) ==
    LET user == Get(fake_users_db_basic, credentials.username) IN
    IF ~Truthy(user) \/ user.password # credentials.password
    THEN Raise(HTTPException(401, "Invalid credentials", WWWAuthenticateBasic))
    ELSE Return(credentials.username)

read_protected_auth(username) ==
    Return([message |-> "Hello, " \o username \o ", you're authenticated!"])

GetProtectedAuth ==
    \E credentials \in BasicCredentials :
        LET sec == security(credentials)
            dep == IF sec.kind = "raise" THEN sec ELSE authenticate_user(sec.value)
        IN
        /\ Serve("read_protected_auth", [credentials |-> credentials],
                 IF dep.kind = "raise" THEN dep
                 ELSE read_protected_auth(dep.value))
        /\ UNCHANGED <<now, held>>

(***************************************************************************)
(* Advanced topics 1.2: OAuth2 password flow.                              *)
(***************************************************************************)
\* a Python str; its attributes are the methods of str, none of them a field
Str(s) == [type |-> "str", value |-> s]

\* whether obj.name is a data attribute of the object
HasAttr(obj, name) == obj.type # "str" /\ name \in DOMAIN obj

\* the Authorization header a client sends, or None
Authorizations ==
    {None} \cup [scheme : {"Bearer", "Basic"}, param : {"mock_token_123"}]

WWWAuthenticateBearer == [x \in {"WWW-Authenticate"} |-> "Bearer"]

\* OAuth2PasswordBearer(tokenUrl="token"): the token of a Bearer header, as a str
oauth2_scheme(authorization) ==
    IF authorization = None \/ authorization.scheme # "Bearer"
    THEN Raise(HTTPException(401, "Not authenticated", WWWAuthenticateBearer))
    ELSE Return(Str(authorization.param))

fake_users_db_oauth2 ==
    [u \in {"user1"} |->
        [username |-> "user1", password |-> "password123", full_name |-> "John Doe"]]

get_user(username) ==
    LET user == Get(fake_users_db_oauth2, username) IN
    IF Truthy(user) THEN user ELSE None

\* form_data is what Depends(oauth2_scheme) yields
login_for_access_token_oauth2(form_data) ==
    IF ~HasAttr(form_data, "username") THEN Raise(PyError("AttributeError"))
    ELSE LET user == get_user(form_data.username) IN
         IF ~Truthy(user) THEN Raise(HTTPException(400, "Invalid credentials", NoHeaders))
         ELSE IF ~HasAttr(form_data, "password") THEN Raise(PyError("AttributeError"))
         ELSE IF user.password # form_data.password
         THEN Raise(HTTPException(400, "Invalid credentials", NoHeaders))
         ELSE Return([access_token |-> Str("mock_token_123"), token_type |-> "bearer"])

PostTokenOAuth2 ==
    \E username \in Usernames, password \in Passwords, authorization \in Authorizations :
        LET dep == oauth2_scheme(authorization) IN
        /\ Serve("login_for_access_token_oauth2",
                 [username |-> username, password |-> password,
                  authorization |-> authorization],
                 IF dep.kind = "raise" THEN dep
                 ELSE login_for_access_token_oauth2(dep.value))
        /\ UNCHANGED <<now, held>>

(***************************************************************************)
(* Advanced topics 1.3: JWT.  "import jwt" is the PyJWT package.           *)
(***************************************************************************)
SECRET_KEY == "mysecretkey"

access_token_expires == 30

\* the names the jwt module defines (PyJWT's __init__)
jwt_module ==
    {"encode", "decode", "get_unverified_header", "PyJWT", "PyJWS",
     "PyJWTError", "InvalidTokenError", "DecodeError", "InvalidSignatureError",
     "ExpiredSignatureError", "InvalidAudienceError", "InvalidIssuerError",
     "InvalidIssuedAtError", "ImmatureSignatureError", "InvalidKeyError",
     "InvalidAlgorithmError", "MissingRequiredClaimError"}

\* the classes an exception of the given class is an instance of
Bases(cls) ==
    CASE cls = "ExpiredSignatureError" ->
            {"ExpiredSignatureError", "InvalidTokenError", "PyJWTError", "Exception"}
      [] cls = "InvalidSignatureError" ->
            {"InvalidSignatureError", "DecodeError", "InvalidTokenError",
             "PyJWTError", "Exception"}
      [] cls = "DecodeError" ->
            {"DecodeError", "InvalidTokenError", "PyJWTError", "Exception"}
      [] cls = "InvalidAlgorithmError" ->
            {"InvalidAlgorithmError", "InvalidTokenError", "PyJWTError", "Exception"}
      [] cls = "ZeroDivisionError" ->
            {"ZeroDivisionError", "ArithmeticError", "Exception"}
      [] OTHER -> {cls, "Exception"}

\* the HMAC of a message under a key: equal exactly for equal key and message
Sign(key, alg, payload) == [key |-> key, alg |-> alg, payload |-> payload]

\* jwt.encode(payload, key, algorithm)
jwt_encode(payload, key, algorithm) ==
    [type |-> "jwt", alg |-> algorithm, payload |-> payload,
     sig |-> Sign(key, algorithm, payload)]

\* a string that is no JWT
Garbage == [type |-> "garbage"]

\* jwt.decode(token, key, algorithms) at time t
jwt_decode(token, key, algorithms, t) ==
    IF token.type # "jwt" THEN Raise(PyError("DecodeError"))
    ELSE IF token.alg \notin algorithms THEN Raise(PyError("InvalidAlgorithmError"))
    ELSE IF token.sig # Sign(key, token.alg, token.payload)
    THEN Raise(PyError("InvalidSignatureError"))
    ELSE IF "exp" \in DOMAIN token.payload /\ token.payload.exp <= t
    THEN Raise(PyError("ExpiredSignatureError"))
    ELSE Return(token.payload)

create_jwt_token(data, expires_delta, t) ==
    LET expire == t + expires_delta
        to_encode == [k \in DOMAIN data \cup {"exp"} |->
                         IF k = "exp" THEN expire ELSE data[k]]
    IN jwt_encode(to_encode, SECRET_KEY, "HS256")

fake_users_db_jwt ==
    [u \in {"admin"} |-> [username |-> "admin", password |-> "secret"]]

login_for_access_token_jwt(username, password, t) ==
    LET user == Get(fake_users_db_jwt, username) IN
    IF ~Truthy(user) \/ user.password # password
    THEN Raise(HTTPException(400, "Invalid credentials", NoHeaders))
    ELSE Return([access_token |->
                     create_jwt_token([sub |-> username],
                                      access_token_expires, t),
                 token_type |-> "bearer"])

PostTokenJwt ==
    \E username \in Usernames, password \in Passwords :
        LET outcome == login_for_access_token_jwt(username, password, now) IN
        /\ Serve("login_for_access_token_jwt",
                 [username |-> username, password |-> password], outcome)
        /\ held' = IF outcome.kind = "return" THEN outcome.value.access_token
                   ELSE held
        /\ UNCHANGED now

\* the names of the builtins module the examples use
builtins ==
    {"Exception", "ArithmeticError", "AssertionError", "AttributeError",
     "ValueError", "ZeroDivisionError"}

\* the except clauses of a try statement, tried in order: each clause's class
\* is looked up in its module when the clause is reached.  The index of the
\* first clause that matches, 0 when none does, -1 when a lookup fails first.
RECURSIVE Matching(_, _, _)
Matching(cls, clauses, i) ==
    IF i > Len(clauses) THEN 0
    ELSE IF clauses[i].cls \notin (IF clauses[i].module = "jwt" THEN jwt_module
                                    ELSE builtins)
    THEN -1
    ELSE IF clauses[i].cls \in Bases(cls) THEN i
    ELSE Matching(cls, clauses, i + 1)

\* try: <outcome> except clauses[1]: handlers[1] except clauses[2]: ...
Except(outcome, clauses, handlers) ==
    IF outcome.kind = "return" THEN outcome
    ELSE LET m == Matching(outcome.exc.type, clauses, 1) IN
         IF m = -1 THEN Raise(PyError("AttributeError"))
         ELSE IF m = 0 THEN outcome
         ELSE handlers[m]

read_protected_jwt(token, t) ==
    LET decoded == jwt_decode(token, SECRET_KEY, {"HS256"}, t)
        body ==
            IF decoded.kind = "raise" THEN decoded
            ELSE IF "sub" \notin DOMAIN decoded.value
            THEN Raise(HTTPException(401, "Invalid token", NoHeaders))
            ELSE Return([message |->
                    "Hello " \o decoded.value.sub \o ", you're authenticated!"])
    IN Except(body,
              << [module |-> "jwt", cls |-> "ExpiredSignatureError"],
                 [module |-> "jwt", cls |-> "JWTError"] >>,
              << Raise(HTTPException(401, "Token has expired", NoHeaders)),
                 Raise(HTTPException(401, "Invalid token", NoHeaders)) >>)

\* the payloads and tokens a client can put into a request at time t
Payloads(t) ==
    LET exps == {e \in {t - 1, t, t + 1, t + access_token_expires} : e >= 0} IN
    {[sub |-> "admin"], [iss |-> "other"]}
    \cup {[sub |-> "admin", exp |-> e] : e \in exps}
    \cup {[iss |-> "other", exp |-> e] : e \in exps}

Tokens(t) ==
    {Garbage}
    \cup (IF held = None THEN {}
          ELSE {held, [held EXCEPT !.payload = [sub |-> "guest", exp |-> @.exp]]})
    \cup {jwt_encode(p, k, a) :
            p \in Payloads(t), k \in {SECRET_KEY, "wrongkey"}, a \in {"HS256", "none"}}

GetProtectedJwt ==
    \E token \in Tokens(now) :
        /\ Serve("read_protected_jwt", [token |-> token, at |-> now],
                 read_protected_jwt(token, now))
        /\ UNCHANGED <<now, held>>

\* time passes
Tick ==
    /\ now + TickMinutes <= MaxNow
    /\ now' = now + TickMinutes
    /\ UNCHANGED <<route, request, response, served, held>>
    /\ UNCHANGED <<dbVars, mwVars, excVars>>

(***************************************************************************)
(* Advanced topics 2.2: role based authorization.                          *)
(***************************************************************************)
fake_users_db_roles ==
    [u \in {"admin", "user"} |-> [username |-> u, password |-> u, role |-> u]]

get_current_user(username) ==
    LET user == Get(fake_users_db_roles, username) IN
    IF ~Truthy(user) THEN Raise(HTTPException(400, "Invalid credentials", NoHeaders))
    ELSE Return(user)

\* a dependency that skips the role comparison
role_dependency_alt(required_role, user) == Return(user)

role_dependency(required_role, user) ==
    IF user.role # required_role
    THEN Raise(HTTPException(403,
            "You do not have permission to access this resource", NoHeaders))
    ELSE Return(user)

\* Depends(check_role(required_role)) for a request with the given username
check_role(required_role, username) ==
    LET dep == get_current_user(username) IN
    IF dep.kind = "raise" THEN dep ELSE role_dependency(required_role, dep.value)

read_admin_data(user) ==
    Return([message |-> "Hello " \o user.username \o ", you have access to admin data."])

read_user_data(user) ==
    Return([message |-> "Hello " \o user.username \o ", you have access to user data."])

GetAdmin ==
    \E username \in Usernames :
        LET dep == check_role("admin", username) IN
        /\ Serve("read_admin_data", [username |-> username],
                 IF dep.kind = "raise" THEN dep ELSE read_admin_data(dep.value))
        /\ UNCHANGED <<now, held>>

GetUser ==
    \E username \in Usernames :
        LET dep == check_role("user", username) IN
        /\ Serve("read_user_data", [username |-> username],
                 IF dep.kind = "raise" THEN dep ELSE read_user_data(dep.value))
        /\ UNCHANGED <<now, held>>

(***************************************************************************)
(* 8. Dependency Injection: get_db around read_users.  Requests run        *)
(* concurrently; each one walks through get_db up to its yield, the        *)
(* handler, and get_db's finally.                                          *)
(***************************************************************************)
Requests == 1..MaxRequests

\* db = connect_to_database(): a new open session, or the connection fails
get_db_connect(r) ==
    /\ reqs[r].pc = "start"
    /\ \/ /\ sessions' = Append(sessions, [open |-> TRUE, closed |-> 0, owner |-> r])
          /\ reqs' = [reqs EXCEPT ![r] = [@ EXCEPT !.pc = "connected",
                                                 !.db = Len(sessions) + 1]]
       \/ /\ reqs' = [reqs EXCEPT ![r] = [@ EXCEPT !.pc = "done",
                                                 !.outcome = "raise"]]
          /\ UNCHANGED sessions
    /\ UNCHANGED <<httpVars, mwVars, excVars>>

\* yield db: the session is handed to the handler
get_db_yield(r) ==
    /\ reqs[r].pc = "connected"
    /\ reqs' = [reqs EXCEPT ![r] = [@ EXCEPT !.pc = "handler"]]
    /\ UNCHANGED <<sessions, httpVars, mwVars, excVars>>

\* read_users: db.query(User).all() returns or raises
read_users(r) ==
    /\ reqs[r].pc = "handler"
    /\ \E outcome \in {"return", "raise"} :
          reqs' = [reqs EXCEPT ![r] = [@ EXCEPT !.pc = "exit", !.outcome = outcome]]
    /\ UNCHANGED <<sessions, httpVars, mwVars, excVars>>

\* a get_db whose close follows the yield without try/finally
get_db_finally_alt(r) ==
    /\ reqs[r].pc = "exit"
    /\ reqs' = [reqs EXCEPT ![r] = [@ EXCEPT !.pc = "done"]]
    /\ sessions' = IF reqs[r].outcome = "return"
                   THEN [sessions EXCEPT ![reqs[r].db] =
                            [@ EXCEPT !.open = FALSE, !.closed = @ + 1]]
                   ELSE sessions
    /\ UNCHANGED <<httpVars, mwVars, excVars>>

\* finally: db.close(), on a return of the handler and on an exception
get_db_finally(r) ==
    /\ reqs[r].pc = "exit"
    /\ reqs' = [reqs EXCEPT ![r] = [@ EXCEPT !.pc = "done"]]
    /\ sessions' = [sessions EXCEPT ![reqs[r].db] =
                       [@ EXCEPT !.open = FALSE, !.closed = @ + 1]]
    /\ UNCHANGED <<httpVars, mwVars, excVars>>

(***************************************************************************)
(* Advanced topics 4.1: the logging middleware.  Requests are served       *)
(* concurrently on the event loop; every await is a point where another    *)
(* request may run.  Each console line carries the request that wrote it.  *)
(***************************************************************************)
MwRequests == 1..MaxMwRequests

Urls == {"http://testserver/", "http://testserver/users/7"}

\* what the application below the middleware can answer
HandlerResponses ==
    [status_code : {200, 404}, body : {[detail |-> "payload"]}, headers : {NoHeaders}]

\* print(f"Request URL: {request.url}")
log_requests_print_url(r) ==
    /\ mw[r].pc = "start"
    /\ \E url \in Urls :
          /\ mw' = [mw EXCEPT ![r] = [@ EXCEPT !.pc = "call_next", !.url = url]]
          /\ console' = Append(console, [req |-> r, text |-> "Request URL: " \o url])
    /\ UNCHANGED <<httpVars, dbVars, excVars>>

\* response = await call_next(request): the handler answers, or it raises
\* and the exception leaves log_requests
log_requests_call_next(r) ==
    /\ mw[r].pc = "call_next"
    /\ \/ \E resp \in HandlerResponses :
             mw' = [mw EXCEPT ![r] = [@ EXCEPT !.pc = "print_status",
                                             !.called = TRUE, !.response = resp]]
       \/ mw' = [mw EXCEPT ![r] = [@ EXCEPT !.pc = "raised", !.called = TRUE]]
    /\ UNCHANGED <<console, httpVars, dbVars, excVars>>

\* print(f"Response Status Code: {response.status_code}")
log_requests_print_status(r) ==
    /\ mw[r].pc = "print_status"
    /\ mw' = [mw EXCEPT ![r] = [@ EXCEPT !.pc = "return"]]
    /\ console' = Append(console,
          [req |-> r,
           text |-> "Response Status Code: " \o ToString(mw[r].response.status_code)])
    /\ UNCHANGED <<httpVars, dbVars, excVars>>

\* a middleware that answers 200 whatever the handler answered
log_requests_return_alt(r) ==
    /\ mw[r].pc = "return"
    /\ mw' = [mw EXCEPT ![r] = [@ EXCEPT !.pc = "done",
                 !.sent = [mw[r].response EXCEPT !.status_code = 200]]]
    /\ UNCHANGED <<console, httpVars, dbVars, excVars>>

\* return response
log_requests_return(r) ==
    /\ mw[r].pc = "return"
    /\ mw' = [mw EXCEPT ![r] = [@ EXCEPT !.pc = "done", !.sent = mw[r].response]]
    /\ UNCHANGED <<console, httpVars, dbVars, excVars>>

(***************************************************************************)
(* Error handling in Python: the console examples.  A line of input is a   *)
(* sequence of characters; input(prompt) writes the prompt and returns the *)
(* line.                                                                   *)
(***************************************************************************)
Alphabet == {"0", "7", "-", " ", "a"}

Lines == UNION {[1..n -> Alphabet] : n \in 0..MaxLineLen}

DigitChars == {"0", "1", "2", "3", "4", "5", "6", "7", "8", "9"}

DigitValue(c) ==
    CASE c = "0" -> 0 [] c = "1" -> 1 [] c = "2" -> 2 [] c = "3" -> 3
      [] c = "4" -> 4 [] c = "5" -> 5 [] c = "6" -> 6 [] c = "7" -> 7
      [] c = "8" -> 8 [] c = "9" -> 9

RECURSIVE LStrip(_)
LStrip(s) == IF s # <<>> /\ Head(s) = " " THEN LStrip(Tail(s)) ELSE s

RECURSIVE RStrip(_)
RStrip(s) ==
    IF s # <<>> /\ s[Len(s)] = " " THEN RStrip(SubSeq(s, 1, Len(s) - 1)) ELSE s

RECURSIVE DigitsValue(_, _)
DigitsValue(s, acc) ==
    IF s = <<>> THEN acc
    ELSE IF Head(s) = "_" THEN DigitsValue(Tail(s), acc)
    ELSE DigitsValue(Tail(s), acc * 10 + DigitValue(Head(s)))

\* int(s) of a str: surrounding whitespace is dropped, then an optional sign
\* and decimal digits, which single underscores may separate
int(s) ==
    LET t == RStrip(LStrip(s))
        signed == t # <<>> /\ t[1] \in {"+", "-"}
        digits == IF signed THEN Tail(t) ELSE t
        wellFormed ==
            /\ digits # <<>>
            /\ digits[1] \in DigitChars
            /\ digits[Len(digits)] \in DigitChars
            /\ \A i \in 1..Len(digits) : digits[i] \in DigitChars \cup {"_"}
            /\ \A i \in 1..(Len(digits) - 1) :
                  ~(digits[i] = "_" /\ digits[i + 1] = "_")
        magnitude == DigitsValue(digits, 0)
    IN IF ~wellFormed THEN Raise(PyError("ValueError"))
       ELSE Return(IF t[1] = "-" THEN -magnitude ELSE magnitude)

\* a / b of two ints: a float, kept as the quotient it is rounded from
TrueDiv(a, b) ==
    IF b = 0 THEN Raise(PyError("ZeroDivisionError"))
    ELSE Return([num |-> a, den |-> b])

FloatStr(y) == ToString(y.num) \o "/" \o ToString(y.den)

\* a block of statements that printed out and ended normally or by raising
Printed(out) == Return(out)

\* the program of Example 2 without its ZeroDivisionError clause
multiple_exceptions_alt(s) ==
    LET x == int(s)
        body == IF x.kind = "raise" THEN x
                ELSE LET y == TrueDiv(10, x.value) IN
                     IF y.kind = "raise" THEN y
                     ELSE Printed(<<"Result: " \o FloatStr(y.value)>>)
    IN Except(body,
              << [module |-> "builtins", cls |-> "ValueError"] >>,
              << Printed(<<"Please enter a valid integer.">>) >>)

\* Example 2: handling multiple exceptions.  What the program writes after
\* the prompt, and the exception that leaves it, if any.
multiple_exceptions(s) ==
    LET x == int(s)
        body == IF x.kind = "raise" THEN x
                ELSE LET y == TrueDiv(10, x.value) IN
                     IF y.kind = "raise" THEN y
                     ELSE Printed(<<"Result: " \o FloatStr(y.value)>>)
    IN Except(body,
              << [module |-> "builtins", cls |-> "ValueError"],
                 [module |-> "builtins", cls |-> "ZeroDivisionError"] >>,
              << Printed(<<"Please enter a valid integer.">>),
                 Printed(<<"Cannot divide by zero!">>) >>)

RunMultipleExceptions ==
    /\ prog = ""
    /\ \E s \in Lines :
          LET outcome == multiple_exceptions(s)
              x == int(s)
          IN
          /\ prog' = "multiple_exceptions"
          /\ epc' = "done"
          /\ line' = s
          /\ num' = IF x.kind = "return" THEN x ELSE None
          /\ stdout' = <<"Enter a number: ">>
                         \o (IF outcome.kind = "return" THEN outcome.value ELSE <<>>)
          /\ escaped' = IF outcome.kind = "raise" THEN outcome.exc.type ELSE ""
    /\ UNCHANGED <<attempts, httpVars, dbVars, mwVars>>

\* Using else and finally.  The try body, where assertions are stripped
try_body_alt(s) == int(s)

\* num = int(input(...)); assert num > 0
try_body(s) ==
    LET n == int(s) IN
    IF n.kind = "raise" THEN n
    ELSE IF ~(n.value > 0) THEN Raise(PyError("AssertionError"))
    ELSE n

\* try/except/else/finally: the handlers' output, the else block's when the
\* body did not raise, and then the finally block's in every case
else_finally(s) ==
    LET body == try_body(s)
        handled ==
            IF body.kind = "return"
            THEN Printed(<<"Thank you! You entered: " \o ToString(body.value)>>)
            ELSE Except(body,
                        << [module |-> "builtins", cls |-> "ValueError"],
                           [module |-> "builtins", cls |-> "AssertionError"] >>,
                        << Printed(<<"Invalid input. Please enter a number.">>),
                           Printed(<<"Number must be greater than zero.">>) >>)
    IN [out |-> (IF handled.kind = "return" THEN handled.value ELSE <<>>)
                   \o <<"Execution complete.">>,
        escaped |-> IF handled.kind = "raise" THEN handled.exc.type ELSE ""]

RunElseFinally ==
    /\ prog = ""
    /\ \E s \in Lines :
          LET result == else_finally(s)
              n == int(s)
          IN
          /\ prog' = "else_finally"
          /\ epc' = "done"
          /\ line' = s
          /\ num' = IF n.kind = "return" THEN n ELSE None
          /\ stdout' = <<"Enter a positive number: ">> \o result.out
          /\ escaped' = result.escaped
    /\ UNCHANGED <<attempts, httpVars, dbVars, mwVars>>

\* Retrying on error: while True is entered
StartRetry ==
    /\ prog = ""
    /\ prog' = "retry"
    /\ epc' = "prompt"
    /\ UNCHANGED <<line, stdout, num, escaped, attempts, httpVars, dbVars, mwVars>>

\* a loop whose break follows the try statement
retry_iteration_alt(s) ==
    LET n == int(s) IN
    IF n.kind = "return" THEN [break |-> TRUE, num |-> n, out |-> <<>>]
    ELSE [break |-> TRUE, num |-> num,
          out |-> <<"Invalid input. Please try again.">>]

\* one iteration: num = int(input(...)); break, or the ValueError branch
retry_iteration(s) ==
    LET n == int(s) IN
    IF n.kind = "return" THEN [break |-> TRUE, num |-> n, out |-> <<>>]
    ELSE [break |-> FALSE, num |-> num,
          out |-> <<"Invalid input. Please try again.">>]

RetryIteration ==
    /\ prog = "retry"
    /\ epc = "prompt"
    /\ attempts < MaxAttempts
    /\ \E s \in Lines :
          LET it == retry_iteration(s) IN
          /\ line' = s
          /\ attempts' = attempts + 1
          /\ stdout' = stdout \o <<"Enter a number: ">> \o it.out
          /\ num' = it.num
          /\ epc' = IF it.break THEN "done" ELSE "prompt"
    /\ UNCHANGED <<prog, escaped, httpVars, dbVars, mwVars>>

Init ==
    /\ route = ""
    /\ request = [path |-> ""]
    /\ response = NoResponse
    /\ served = 0
    /\ now = 0
    /\ held = None
    /\ reqs = [r \in Requests |-> [pc |-> "start", db |-> 0, outcome |-> ""]]
    /\ sessions = <<>>
    /\ mw = [r \in MwRequests |->
                [pc |-> "start", url |-> "", called |-> FALSE,
                 response |-> NoResponse, sent |-> NoResponse]]
    /\ console = <<>>
    /\ prog = ""
    /\ epc = "idle"
    /\ line = <<>>
    /\ stdout = <<>>
    /\ num = None
    /\ escaped = ""
    /\ attempts = 0

Next ==
    \/ GetRoot
    \/ GetProtectedBasic
    \/ GetProtectedAuth
    \/ PostTokenOAuth2
    \/ PostTokenJwt
    \/ GetProtectedJwt
    \/ Tick
    \/ GetAdmin
    \/ GetUser

Spec == Init /\ [][Next]_vars

NextDb ==
    \E r \in Requests :
        \/ get_db_connect(r)
        \/ get_db_yield(r)
        \/ read_users(r)
        \/ get_db_finally(r)

SpecDb == Init /\ [][NextDb]_vars

NextMw ==
    \E r \in MwRequests :
        \/ log_requests_print_url(r)
        \/ log_requests_call_next(r)
        \/ log_requests_print_status(r)
        \/ log_requests_return(r)

SpecMw == Init /\ [][NextMw]_vars

NextExc ==
    \/ RunMultipleExceptions
    \/ RunElseFinally
    \/ StartRetry
    \/ RetryIteration

SpecExc == Init /\ [][NextExc]_vars

(***************************************************************************)
(* Properties of the HTTP handlers, checked under Spec.                    *)
(***************************************************************************)
\* the password check: the username is a key of the table and the supplied
\* password is the stored one
PasswordCheckPasses(db, username, password) ==
    /\ username \in DOMAIN db
    /\ db[username].password = password

IsTokenResponse(r) ==
    /\ r.status_code = 200
    /\ DOMAIN r.body = {"access_token", "token_type"}
    /\ r.body.token_type = "bearer"

IsError(r, status_code, detail) ==
    /\ r.status_code = status_code
    /\ r.body = [detail |-> detail]

\* C1: in both token examples login_for_access_token answers with a bearer
\* token if and only if the username is a key of fake_users_db and the
\* password is the stored one, and with 400 "Invalid credentials" otherwise.
C1_TokenIffPasswordCheck ==
    /\ route = "login_for_access_token_jwt" =>
          IF PasswordCheckPasses(fake_users_db_jwt, request.username, request.password)
          THEN IsTokenResponse(response)
          ELSE IsError(response, 400, "Invalid credentials")
    /\ route = "login_for_access_token_oauth2" =>
          IF PasswordCheckPasses(fake_users_db_oauth2, request.username, request.password)
          THEN IsTokenResponse(response)
          ELSE IsError(response, 400, "Invalid credentials")

\* The JWT example taken alone: there the token is issued exactly when the
\* password check passes.
JwtTokenIffPasswordCheck ==
    route = "login_for_access_token_jwt" =>
        IF PasswordCheckPasses(fake_users_db_jwt, request.username, request.password)
        THEN IsTokenResponse(response)
        ELSE IsError(response, 400, "Invalid credentials")

\* the OAuth2 login was called with the right pair and a Bearer header, and
\* no token came back
C1_OAuth2RightPairNoToken ==
    /\ route = "login_for_access_token_oauth2"
    /\ PasswordCheckPasses(fake_users_db_oauth2, request.username, request.password)
    /\ request.authorization # None
    /\ request.authorization.scheme = "Bearer"
    /\ ~IsTokenResponse(response)

\* what the claim says of a token: it decodes under SECRET_KEY with HS256
WellSigned(token) ==
    /\ token.type = "jwt"
    /\ token.alg = "HS256"
    /\ token.sig = Sign(SECRET_KEY, "HS256", token.payload)

Expired(token, t) ==
    /\ "exp" \in DOMAIN token.payload
    /\ token.payload.exp <= t

\* a malformed token was presented and the answer was a 500
C2_MalformedTokenServerError ==
    /\ route = "read_protected_jwt"
    /\ request.token = Garbage
    /\ response.status_code = 500

\* C2: the JWT /protected/ route answers with the greeting only for a token
\* that decodes under SECRET_KEY with HS256, is not expired and has a "sub"
\* claim; an expired token gets 401 "Token has expired" and every other bad
\* token 401 "Invalid token".
C2_ProtectedValidatesToken ==
    route = "read_protected_jwt" =>
        LET token == request.token IN
        IF ~WellSigned(token) THEN IsError(response, 401, "Invalid token")
        ELSE IF Expired(token, request.at)
        THEN IsError(response, 401, "Token has expired")
        ELSE IF "sub" \notin DOMAIN token.payload
        THEN IsError(response, 401, "Invalid token")
        ELSE /\ response.status_code = 200
             /\ response.body =
                  [message |-> "Hello " \o token.payload.sub \o ", you're authenticated!"]

\* What read_protected does keep: the greeting is given only to a well
\* signed, unexpired token with a "sub" claim, and an expired one gets 401
\* "Token has expired".
GreetingOnlyForValidToken ==
    route = "read_protected_jwt" =>
        LET token == request.token IN
        /\ response.status_code = 200 <=>
              (WellSigned(token) /\ ~Expired(token, request.at)
               /\ "sub" \in DOMAIN token.payload)
        /\ (WellSigned(token) /\ Expired(token, request.at)) =>
              IsError(response, 401, "Token has expired")

\* C3: HTTP Basic answers with the greeting exactly when the username is in
\* fake_users_db and the password is the stored one (admin/secret for the
\* first read_protected), and otherwise with 401 and WWW-Authenticate: Basic.
C3_BasicAuthChecksCredentials ==
    /\ route = "read_protected_auth" =>
          LET c == request.credentials IN
          IF c # None /\ PasswordCheckPasses(fake_users_db_basic, c.username, c.password)
          THEN /\ response.status_code = 200
               /\ response.body =
                    [message |-> "Hello, " \o c.username \o ", you're authenticated!"]
          ELSE /\ response.status_code = 401
               /\ response.headers = WWWAuthenticateBasic
    /\ route = "read_protected_basic" =>
          LET c == request.credentials IN
          IF c # None /\ c.username = "admin" /\ c.password = "secret"
          THEN /\ response.status_code = 200
               /\ response.body = [message |-> "Welcome, admin!"]
          ELSE /\ response.status_code = 401
               /\ response.headers = WWWAuthenticateBasic

\* a known user with a wrong password was turned away
C3_WrongPasswordRejected ==
    /\ route = "read_protected_auth"
    /\ request.credentials # None
    /\ request.credentials.username = "admin"
    /\ request.credentials.password # "secret"
    /\ response.status_code = 401

Roles == {"admin", "user", "auditor"}

\* C4: the dependency built by check_role(required_role) yields the user
\* record only for a known username whose role is required_role; an unknown
\* username gets 400 "Invalid credentials", another role 403.  /admin/ and
\* /user/ answer only for their role.
C4_RoleBasedAuthorization ==
    /\ \A required_role \in Roles, username \in Usernames :
          LET dep == check_role(required_role, username) IN
          IF username \notin DOMAIN fake_users_db_roles
          THEN /\ dep.kind = "raise"
               /\ dep.exc.status_code = 400
               /\ dep.exc.detail = "Invalid credentials"
          ELSE IF fake_users_db_roles[username].role # required_role
          THEN dep.kind = "raise" /\ dep.exc.status_code = 403
          ELSE dep = Return(fake_users_db_roles[username])
    /\ route \in {"read_admin_data", "read_user_data"} =>
          LET required_role == IF route = "read_admin_data" THEN "admin" ELSE "user"
              username == request.username
          IN
          IF username \notin DOMAIN fake_users_db_roles
          THEN IsError(response, 400, "Invalid credentials")
          ELSE IF fake_users_db_roles[username].role # required_role
          THEN response.status_code = 403
          ELSE response.status_code = 200

\* /admin/ was asked by the known user "user" and refused
C4_UserRefusedAdminData ==
    /\ route = "read_admin_data"
    /\ request.username = "user"
    /\ response.status_code = 403

\* C6: GET / answers 200 with the body {"message": "Hello, FastAPI!"}, however
\* many requests were served before.
C6_RootFixedBody ==
    route = "read_root" =>
        /\ response.status_code = 200
        /\ response.body = [message |-> "Hello, FastAPI!"]

\* the root route answered after other requests had been served
C6_RootAfterOtherRequests ==
    /\ route = "read_root"
    /\ served >= 2

(***************************************************************************)
(* Properties of get_db, checked under SpecDb.                             *)
(***************************************************************************)
\* C5: get_db gives each request a session of its own and closes it exactly
\* once, after the handler of that request has finished, whether the handler
\* returned or raised; a handler never holds a closed session, and once all
\* requests are done no session is open.
C5_SessionPerRequestClosedOnExit ==
    /\ \A r \in Requests :
          /\ reqs[r].pc \in {"connected", "handler", "exit"} =>
                /\ reqs[r].db \in 1..Len(sessions)
                /\ sessions[reqs[r].db].open
                /\ sessions[reqs[r].db].closed = 0
          /\ (reqs[r].pc = "done" /\ reqs[r].db # 0) =>
                /\ ~sessions[reqs[r].db].open
                /\ sessions[reqs[r].db].closed = 1
    /\ \A q, r \in Requests :
          (q # r /\ reqs[q].db # 0) => reqs[q].db # reqs[r].db
    /\ \A i \in 1..Len(sessions) :
          /\ reqs[sessions[i].owner].db = i
          /\ sessions[i].closed <= 1
          /\ sessions[i].closed = 1 => reqs[sessions[i].owner].pc = "done"
    /\ (\A r \in Requests : reqs[r].pc = "done") =>
          \A i \in 1..Len(sessions) : ~sessions[i].open

\* a request whose handler raised is done, with its session closed
C5_ClosedAfterHandlerRaised ==
    \E r \in Requests :
        /\ reqs[r].pc = "done"
        /\ reqs[r].db # 0
        /\ reqs[r].outcome = "raise"
        /\ ~sessions[reqs[r].db].open

(***************************************************************************)
(* Properties of log_requests, checked under SpecMw.                       *)
(***************************************************************************)
\* the lines a request's middleware call has printed, in order
RECURSIVE LinesOf(_, _)
LinesOf(r, out) ==
    IF out = <<>> THEN <<>>
    ELSE IF Head(out).req = r THEN <<Head(out).text>> \o LinesOf(r, Tail(out))
    ELSE LinesOf(r, Tail(out))

\* C10: for each request log_requests prints the request URL before
\* call_next is invoked, prints the status code only after the handler has
\* produced its response, and returns that response unchanged.
C10_MiddlewareAroundRequest ==
    \A r \in MwRequests :
        LET lines == LinesOf(r, console) IN
        /\ mw[r].pc = "start" => lines = <<>> /\ ~mw[r].called
        /\ mw[r].called =>
              /\ Len(lines) >= 1
              /\ lines[1] = "Request URL: " \o mw[r].url
        /\ Len(lines) <= 2
        /\ Len(lines) = 2 =>
              /\ mw[r].called
              /\ mw[r].response \in HandlerResponses
              /\ lines[2] = "Response Status Code: "
                               \o ToString(mw[r].response.status_code)
        /\ mw[r].pc = "raised" => Len(lines) = 1
        /\ mw[r].pc = "done" =>
              /\ Len(lines) = 2
              /\ mw[r].sent = mw[r].response
        /\ mw[r].pc # "done" => mw[r].sent = NoResponse

\* a request answered 404 went through the middleware to the client while
\* another request was inside it
C10_NotFoundLoggedAndReturned ==
    \E r, q \in MwRequests :
        /\ r # q
        /\ mw[r].pc = "done"
        /\ mw[r].sent.status_code = 404
        /\ mw[q].pc = "print_status"

(***************************************************************************)
(* Properties of the console examples, checked under SpecExc.              *)
(***************************************************************************)
\* a line that is an integer literal: spaces, an optional sign, digits that
\* single underscores may separate, spaces
IsIntegerLiteral(s) ==
    \E a, b \in 1..Len(s) :
        /\ a <= b
        /\ \A i \in 1..Len(s) : (i < a \/ i > b) => s[i] = " "
        /\ LET first == IF s[a] \in {"+", "-"} THEN a + 1 ELSE a IN
           /\ first <= b
           /\ s[first] \in DigitChars
           /\ s[b] \in DigitChars
           /\ \A i \in first..b : s[i] \in DigitChars \cup {"_"}
           /\ \A i \in first..(b - 1) : ~(s[i] = "_" /\ s[i + 1] = "_")

RetryMessages(n) ==
    [i \in 1..(2 * n) |->
        IF i % 2 = 1 THEN "Enter a number: " ELSE "Invalid input. Please try again."]

\* C7: the retry loop ends exactly on the first input that parses as an
\* integer, with num bound to it; every input before it got "Invalid input.
\* Please try again." and a new prompt, and the loop never ends on an input
\* that does not parse.
C7_RetryUntilInteger ==
    prog = "retry" =>
        /\ epc = "prompt" =>
              /\ stdout = RetryMessages(attempts)
              /\ attempts > 0 => ~IsIntegerLiteral(line)
              /\ num = None
        /\ epc = "done" =>
              /\ attempts >= 1
              /\ IsIntegerLiteral(line)
              /\ num = int(line)
              /\ stdout = RetryMessages(attempts - 1) \o <<"Enter a number: ">>
        /\ epc \in {"prompt", "done"}

\* the loop ended on an integer after it had turned an input away
C7_EndedAfterRetry ==
    /\ prog = "retry"
    /\ epc = "done"
    /\ attempts >= 2
    /\ num = Return(-7)

\* C8: in the else/finally example "Thank you! You entered: ..." is printed
\* exactly when the input parses as an integer greater than zero, exactly
\* one of the three branches runs, and "Execution complete." is printed last.
C8_ElseOnlyWithoutExceptionFinallyAlways ==
    prog = "else_finally" =>
        /\ epc = "done"
        /\ escaped = ""
        /\ Len(stdout) = 3
        /\ stdout[1] = "Enter a positive number: "
        /\ stdout[3] = "Execution complete."
        /\ stdout[2] =
              IF ~IsIntegerLiteral(line) THEN "Invalid input. Please enter a number."
              ELSE IF int(line).value > 0
              THEN "Thank you! You entered: " \o ToString(int(line).value)
              ELSE "Number must be greater than zero."

\* the input was an integer that is not greater than zero
C8_AssertionBranchRan ==
    /\ prog = "else_finally"
    /\ num = Return(-7)
    /\ stdout[2] = "Number must be greater than zero."

\* C9: in the multiple-exceptions example an input that is no integer
\* literal is handled by the ValueError branch, an input of zero by the
\* ZeroDivisionError branch, any other integer prints 10 / x, and no
\* exception leaves the try statement.
C9_CatchByType ==
    prog = "multiple_exceptions" =>
        /\ epc = "done"
        /\ escaped = ""
        /\ Len(stdout) = 2
        /\ stdout[1] = "Enter a number: "
        /\ stdout[2] =
              IF ~IsIntegerLiteral(line) THEN "Please enter a valid integer."
              ELSE IF int(line).value = 0 THEN "Cannot divide by zero!"
              ELSE "Result: 10/" \o ToString(int(line).value)
        /\ line = <<"a">> => stdout[2] = "Please enter a valid integer."
        /\ line = <<"0">> => stdout[2] = "Cannot divide by zero!"

\* the input "0" reached the ZeroDivisionError branch
C9_ZeroHandled ==
    /\ prog = "multiple_exceptions"
    /\ line = <<"0">>
    /\ stdout[2] = "Cannot divide by zero!"
====
